---- MODULE Spec2Model ----
(***************************************************************************)
(* Model of the tmux pane bridge adapter (mux/src/tmux_pty.rs): TmuxReader *)
(* (blocking read over a flume channel of String chunks) and TmuxPty (the  *)
(* Write / Child / MasterPty implementations backed by the shared pane     *)
(* state and a receiver handle of the pane's output channel).              *)
(***************************************************************************)
EXTENDS Integers, Sequences, FiniteSets, TLC

\* ------------------------------------------------------------------ bounds
MaxSend == 2          \* chunks sent over all pane channels together
MaxChunkLen == 2      \* longest chunk, in bytes
MaxBuf == 1           \* longest caller buffer handed to read
MaxReads == 2         \* read calls over all readers together
MaxUpdates == 2       \* layout changes the control-connection side applies
MaxWriters == 1       \* writers cloned over all panes together
MaxSelLen == 2        \* longest selection typed into the pane selector

\* ------------------------------------------------------- program constants
U16Range == 65536     \* number of values of the u16 target of `as u16`

Panes == {1, 2}       \* pane A = 1, pane B = 2: one TmuxPty and one channel each
Readers == {1, 2}     \* the TmuxReader objects that can be cloned

\* bytes of the chunks the producer sends on pane p's channel
Chunks(p) == {[i \in 1..n |-> 10 * p + i] : n \in 0..MaxChunkLen}

\* geometry values the shared pane state is set to (pane_width / pane_height)
Widths == {80, 65535, 65616}
Heights == {24, 65560}

\* PtySize arguments handed to resize
Sizes == {[rows |-> 24, cols |-> 80, pixel_width |-> 0, pixel_height |-> 0],
          [rows |-> 50, cols |-> 132, pixel_width |-> 0, pixel_height |-> 0]}

VARIABLES
    queue,        \* queue[p]: messages in flight on pane p's flume channel
    txAlive,      \* txAlive[p]: the channel of pane p still has a sender
    sent,         \* sent[p]: history of the chunks sent on pane p's channel
    rdState,      \* rdState[r]: "none" (not cloned), "idle", "reading" (inside
                  \*   recv), "dropped"
    rdPty,        \* rdPty[r]: the TmuxPty reader r was cloned from
    rdRx,         \* rdRx[r]: the channel reader r's rx handle receives from
    rdBuf,        \* rdBuf[r]: length of the caller buffer of the read in progress
    rdLog,        \* rdLog[r]: history of reader r's read returns
    rdEos,        \* rdEos[r]: number of r's first read that returned Ok(0) on a
                  \*   channel without senders (0: none yet)
    pane_width,   \* pane_width[p]: width stored in the shared pane state
    pane_height,  \* pane_height[p]: height stored in the shared pane state
    issued,       \* commands written toward the control connection
    call,         \* the last completed TmuxPty method call and its result
    waitPc,       \* waitPc[p]: position of a caller of TmuxPty::wait on pane p
    lock,         \* lock[p]: holder of the mutex of pane p's shared state
    gs,           \* the thread inside get_size: position, pane, height it has read
    upd,          \* the control-connection side applying a layout change
    geomHist,     \* geomHist[p]: every complete (w, h) the pane state of p has held
    updates,      \* layout changes applied so far
    writers,      \* writers[p]: TmuxPty clones made by try_clone_writer on pane p
    element,      \* PaneSelector::element is Some
    labels,       \* PaneSelector::labels
    selection,    \* PaneSelector::selection
    modal,        \* the pane-select modal of the window: "open" or "cancelled"
    hasTab,       \* the mux has an active tab for the window
    overlay,      \* the active tab's state has an overlay
    nPanes,       \* panes of the active tab, with indices 0..nPanes-1
    activeIdx,    \* index of the active pane of the active tab
    selEv         \* last key_down: index of the matched label and the index
                  \*   handed to set_active_idx (-1: none)

vars == <<queue, txAlive, sent, rdState, rdPty, rdRx, rdBuf, rdLog, rdEos,
          pane_width, pane_height, issued, call, waitPc,
          lock, gs, upd, geomHist, updates, writers,
          element, labels, selection, modal, hasTab, overlay, nPanes, activeIdx, selEv>>

ioVars == <<queue, txAlive, sent, rdState, rdPty, rdRx, rdBuf, rdLog, rdEos>>
ptyVars == <<pane_width, pane_height, issued, call, waitPc>>
lockVars == <<lock, gs, upd, geomHist, updates>>
selVars == <<element, labels, selection, modal, hasTab, overlay, nPanes, activeIdx, selEv>>
extVars == <<lockVars, writers, selVars>>

\* ------------------------------------------------------------ result values
Ok(v) == [kind |-> "Ok", v |-> v]
Err == [kind |-> "Err", v |-> 0]
Panic == [kind |-> "Panic", v |-> 0]
NoRet == [kind |-> "None", v |-> 0]

Min(a, b) == IF a < b THEN a ELSE b

Take(s, n) == SubSeq(s, 1, Min(n, Len(s)))

RECURSIVE Concat(_)
Concat(ss) == IF ss = <<>> THEN <<>> ELSE Head(ss) \o Concat(Tail(ss))

\* ---------------------------------------------------------------- channel
\* flume::Receiver::recv can complete: a message is queued, or every sender
\* is gone (queued messages are handed out before the disconnect is reported)
RecvReady(c) == Len(queue[c]) > 0 \/ ~txAlive[c]

\* <&mut [u8] as Write>::write: copies min(len(buf), len(data)) bytes and
\* returns that count; the rest of data is not kept anywhere
BufWrite(buflen, data) == [n |-> Min(buflen, Len(data)), bytes |-> Take(data, buflen)]

\* recv, were it to leave the received message in the channel for other receivers
AfterRecvKeepsMessage(q) == q

\* the channel's queue once recv has taken its first message: a message goes
\* to one receiver only
AfterRecv(q) == Tail(q)

\* the Err(_) arm of TmuxReader::read, were it to hand the RecvError on
ReadErrArmPropagates == Err

\* the Err(_) arm of TmuxReader::read
ReadErrArm == Ok(0)

\* try_clone_reader, were it to clone the rx of the other pane's channel
ClonedRxOfOtherPane(p) == 3 - p

\* the rx that try_clone_reader on the TmuxPty of pane p clones: its own
ClonedRx(p) == p

\* ------------------------------------------------------------------- Init
Init ==
    /\ queue = [p \in Panes |-> <<>>]
    /\ txAlive = [p \in Panes |-> TRUE]
    /\ sent = [p \in Panes |-> <<>>]
    /\ rdState = [r \in Readers |-> "none"]
    /\ rdPty = [r \in Readers |-> 0]
    /\ rdRx = [r \in Readers |-> 0]
    /\ rdBuf = [r \in Readers |-> 0]
    /\ rdLog = [r \in Readers |-> <<>>]
    /\ rdEos = [r \in Readers |-> 0]
    /\ pane_width = [p \in Panes |-> 80]
    /\ pane_height = [p \in Panes |-> 24]
    /\ issued = <<>>
    /\ call = [op |-> "none", pane |-> 0, arg |-> <<>>, ret |-> NoRet]
    /\ waitPc = [p \in Panes |-> "idle"]
    /\ lock = [p \in Panes |-> "free"]
    /\ gs = [pc |-> "idle", pane |-> 0, rows |-> 0]
    /\ upd = [pc |-> "idle", pane |-> 0, w |-> 0, h |-> 0]
    /\ geomHist = [p \in Panes |-> {[w |-> 80, h |-> 24]}]
    /\ updates = 0
    /\ writers = [p \in Panes |-> 0]
    /\ element = FALSE
    /\ labels = <<>>
    /\ selection = <<>>
    /\ modal = "open"
    /\ hasTab = TRUE
    /\ overlay = FALSE
    /\ nPanes = 2
    /\ activeIdx = 0
    /\ selEv = [matched |-> -1, activated |-> -1]

TotalSent == Len(sent[1]) + Len(sent[2])

\* ------------------------------------------------- producer side of a channel
\* the TmuxPty, were it to keep no receiver handle of its own
PtyHoldsNoRx(p) == 0

\* receiver handles that one TmuxPty of pane p holds: its rx field
PtyRxHandles(p) == 1

\* live receivers of pane p's channel: the TmuxPty, the writers cloned from it
\* (each a TmuxPty with a clone of rx) and the readers not yet dropped
RxCount(p) ==
    (1 + writers[p]) * PtyRxHandles(p)
    + Cardinality({r \in Readers : rdState[r] \in {"idle", "reading"} /\ rdRx[r] = p})

\* the control-connection side sends one decoded output chunk to pane p; a
\* channel without receivers refuses the message
Send(p, s) ==
    /\ txAlive[p]
    /\ TotalSent < MaxSend
    /\ queue' = [queue EXCEPT ![p] =
                    IF RxCount(p) > 0
                    THEN Append(@, [src |-> p, seq |-> Len(sent[p]) + 1, str |-> s])
                    ELSE @]
    /\ sent' = [sent EXCEPT ![p] = Append(@, s)]
    /\ UNCHANGED <<txAlive, rdState, rdPty, rdRx, rdBuf, rdLog, rdEos, ptyVars, extVars>>

\* the last sender of pane p's channel is dropped (pane exit, connection teardown)
DropSender(p) ==
    /\ txAlive[p]
    /\ txAlive' = [txAlive EXCEPT ![p] = FALSE]
    /\ UNCHANGED <<queue, sent, rdState, rdPty, rdRx, rdBuf, rdLog, rdEos, ptyVars, extVars>>

\* ---------------------------------------------------------------- TmuxReader
\* TmuxPty::try_clone_reader on the TmuxPty of pane p, giving reader r
\* (readers are numbered in the order they are created)
try_clone_reader(p, r) ==
    /\ rdState[r] = "none"
    /\ \A q \in Readers : q < r => rdState[q] # "none"
    /\ rdState' = [rdState EXCEPT ![r] = "idle"]
    /\ rdPty' = [rdPty EXCEPT ![r] = p]
    /\ rdRx' = [rdRx EXCEPT ![r] = ClonedRx(p)]
    /\ UNCHANGED <<queue, txAlive, sent, rdBuf, rdLog, rdEos, ptyVars, extVars>>

\* read calls made so far: the completed ones and those inside recv
TotalReads ==
    Len(rdLog[1]) + Len(rdLog[2]) + Cardinality({r \in Readers : rdState[r] = "reading"})

\* TmuxReader::read is called with a buffer of n bytes and enters rx.recv()
ReadCall(r, n) ==
    /\ rdState[r] = "idle"
    /\ TotalReads < MaxReads
    /\ rdState' = [rdState EXCEPT ![r] = "reading"]
    /\ rdBuf' = [rdBuf EXCEPT ![r] = n]
    /\ UNCHANGED <<queue, txAlive, sent, rdPty, rdRx, rdLog, rdEos, ptyVars, extVars>>

\* the result of reader r's last completed read
rdRet(r) == IF rdLog[r] = <<>> THEN NoRet ELSE rdLog[r][Len(rdLog[r])].ret

\* what read returns for a received message m and a buffer of buflen bytes
ReadOkArm(buflen, m) == Ok(BufWrite(buflen, m.str).n)

\* rx.recv() completes and TmuxReader::read returns
ReadReturn(r) ==
    LET c == rdRx[r] IN
    /\ rdState[r] = "reading"
    /\ RecvReady(c)
    /\ IF Len(queue[c]) > 0
       THEN LET m == Head(queue[c]) IN
            /\ queue' = [queue EXCEPT ![c] = AfterRecv(@)]
            /\ rdLog' = [rdLog EXCEPT ![r] = Append(@,
                    [ret |-> ReadOkArm(rdBuf[r], m), src |-> m.src, seq |-> m.seq,
                     bytes |-> BufWrite(rdBuf[r], m.str).bytes])]
       ELSE /\ queue' = queue
            /\ rdLog' = [rdLog EXCEPT ![r] = Append(@,
                    [ret |-> ReadErrArm, src |-> c, seq |-> 0,
                     bytes |-> <<>>])]
    /\ rdEos' = [rdEos EXCEPT ![r] =
                    IF @ = 0 /\ ~txAlive[c] /\ rdRet(r)' = Ok(0) THEN Len(rdLog'[r]) ELSE @]
    /\ rdState' = [rdState EXCEPT ![r] = "idle"]
    /\ rdBuf' = [rdBuf EXCEPT ![r] = 0]
    /\ UNCHANGED <<txAlive, sent, rdPty, rdRx, ptyVars, extVars>>

\* a TmuxReader that is not inside read is dropped, and its rx with it
drop_reader(r) ==
    /\ rdState[r] = "idle"
    /\ rdState' = [rdState EXCEPT ![r] = "dropped"]
    /\ UNCHANGED <<queue, txAlive, sent, rdPty, rdRx, rdBuf, rdLog, rdEos, ptyVars, extVars>>

TotalWriters == writers[1] + writers[2]

\* TmuxPty::try_clone_writer: a boxed TmuxPty with clones of master_pane and rx
try_clone_writer(p) ==
    /\ TotalWriters < MaxWriters
    /\ writers' = [writers EXCEPT ![p] = @ + 1]
    /\ UNCHANGED <<ioVars, ptyVars, lockVars, selVars>>

NextIO ==
    \/ \E p \in Panes : \E s \in Chunks(p) : Send(p, s)
    \/ \E p \in Panes : DropSender(p)
    \/ \E p \in Panes : \E r \in Readers : try_clone_reader(p, r)
    \/ \E r \in Readers : \E n \in 1..MaxBuf : ReadCall(r, n)
    \/ \E r \in Readers : ReadReturn(r)

SpecIO == Init /\ [][NextIO]_vars

\* readers come and go and writers are cloned while the producer is alive
NextDrop ==
    \/ \E p \in Panes : \E s \in Chunks(p) : Send(p, s)
    \/ \E p \in Panes : \E r \in Readers : try_clone_reader(p, r)
    \/ \E r \in Readers : \E n \in 1..MaxBuf : ReadCall(r, n)
    \/ \E r \in Readers : ReadReturn(r)
    \/ \E r \in Readers : drop_reader(r)
    \/ \E p \in Panes : try_clone_writer(p)

SpecDrop == Init /\ [][NextDrop]_vars

\* a reader thread parked in recv is woken and scheduled once recv can complete
FairIO == SpecIO /\ \A r \in Readers : WF_vars(ReadReturn(r))

\* ------------------------------------------------------------------ TmuxPty
\* the control-connection side stores a pane's new geometry in the shared
\* pane state, both fields under the pane lock
LayoutChanged(p, w, h) ==
    /\ pane_width' = [pane_width EXCEPT ![p] = w]
    /\ pane_height' = [pane_height EXCEPT ![p] = h]
    /\ UNCHANGED <<ioVars, extVars, issued, call, waitPc>>

\* `x as u16`: the value modulo 2^16
AsU16(x) == x % U16Range

\* the PtySize that get_size builds from the locked pane state
PtySizeOf(p) ==
    [rows |-> AsU16(pane_height[p]), cols |-> AsU16(pane_width[p]),
     pixel_width |-> 0, pixel_height |-> 0]

\* MasterPty::get_size
get_size(p) ==
    /\ call' = [op |-> "get_size", pane |-> p,
                arg |-> [w |-> pane_width[p], h |-> pane_height[p]],
                ret |-> Ok(PtySizeOf(p))]
    /\ UNCHANGED <<ioVars, extVars, pane_width, pane_height, issued, waitPc>>

\* MasterPty::resize, were it to adopt the requested size locally
resizeAdoptsSize(p, size) ==
    /\ call' = [op |-> "resize", pane |-> p, arg |-> size, ret |-> Ok(<<>>)]
    /\ pane_width' = [pane_width EXCEPT ![p] = size.cols]
    /\ pane_height' = [pane_height EXCEPT ![p] = size.rows]
    /\ UNCHANGED <<ioVars, extVars, issued, waitPc>>

\* MasterPty::resize: returns Ok(()) and does nothing else
resize(p, size) ==
    /\ call' = [op |-> "resize", pane |-> p, arg |-> size, ret |-> Ok(<<>>)]
    /\ UNCHANGED <<ioVars, extVars, pane_width, pane_height, issued, waitPc>>

\* lengths of the buffers handed to write
WriteLens == {0, 1, 2}

\* Write::write with a buffer of n bytes: Ok(0), nothing is sent anywhere
write(p, n) ==
    /\ call' = [op |-> "write", pane |-> p, arg |-> n, ret |-> Ok(0)]
    /\ UNCHANGED <<ioVars, extVars, pane_width, pane_height, issued, waitPc>>

\* Write::flush: Ok(())
flush(p) ==
    /\ call' = [op |-> "flush", pane |-> p, arg |-> <<>>, ret |-> Ok(<<>>)]
    /\ UNCHANGED <<ioVars, extVars, pane_width, pane_height, issued, waitPc>>

\* Child::try_wait: todo!() panics in the caller
try_wait(p) ==
    /\ call' = [op |-> "try_wait", pane |-> p, arg |-> <<>>, ret |-> Panic]
    /\ UNCHANGED <<ioVars, extVars, pane_width, pane_height, issued, waitPc>>

\* Child::kill: todo!() panics in the caller
kill(p) ==
    /\ call' = [op |-> "kill", pane |-> p, arg |-> <<>>, ret |-> Panic]
    /\ UNCHANGED <<ioVars, extVars, pane_width, pane_height, issued, waitPc>>

\* Child::process_id: Some(0)
process_id(p) ==
    /\ call' = [op |-> "process_id", pane |-> p, arg |-> <<>>,
                ret |-> [kind |-> "Some", v |-> 0]]
    /\ UNCHANGED <<ioVars, extVars, pane_width, pane_height, issued, waitPc>>

\* Child::wait is called and enters `loop {}`
wait(p) ==
    /\ waitPc[p] = "idle"
    /\ waitPc' = [waitPc EXCEPT ![p] = "looping"]
    /\ UNCHANGED <<ioVars, extVars, pane_width, pane_height, issued, call>>

\* one turn of `loop {}` in Child::wait: the body is empty and there is no exit
wait_loop(p) ==
    /\ waitPc[p] = "looping"
    /\ waitPc' = [waitPc EXCEPT ![p] = "looping"]
    /\ UNCHANGED <<ioVars, extVars, pane_width, pane_height, issued, call>>

NextPty ==
    \/ \E p \in Panes : \E w \in Widths : \E h \in Heights : LayoutChanged(p, w, h)
    \/ \E p \in Panes : DropSender(p)
    \/ \E p \in Panes : get_size(p)
    \/ \E p \in Panes : \E size \in Sizes : resize(p, size)
    \/ \E p \in Panes : \E n \in WriteLens : write(p, n)
    \/ \E p \in Panes : flush(p)
    \/ \E p \in Panes : try_wait(p)
    \/ \E p \in Panes : kill(p)
    \/ \E p \in Panes : process_id(p)
    \/ \E p \in Panes : wait(p)
    \/ \E p \in Panes : wait_loop(p)

SpecPty == Init /\ [][NextPty]_vars

\* every thread that can take a step is eventually scheduled
FairPty == SpecPty /\ WF_vars(NextPty)

\* ------------------------------------------- get_size and the pane state lock
\* read, were it to keep the pane lock of its TmuxPty while it is inside recv
ReadHoldsPaneLock(r) == {rdPty[r]}

\* pane locks reader r holds while it is inside read: none, a TmuxReader has
\* its rx and nothing else
ReadHeldLocks(r) == {}

\* get_size, were it to read the pane state without waiting for the mutex
GetSizeIgnoresLock(p) == TRUE

\* self.master_pane.lock() can be taken by get_size: nobody holds the mutex
GetSizeLockFree(p) ==
    /\ lock[p] = "free"
    /\ \A r \in Readers : rdState[r] = "reading" => p \notin ReadHeldLocks(r)

\* get_size is called on the TmuxPty of pane p and goes for the pane lock
gs_call(p) ==
    /\ gs.pc = "idle"
    /\ gs' = [pc |-> "lock", pane |-> p, rows |-> 0]
    /\ UNCHANGED <<ioVars, ptyVars, lock, upd, geomHist, updates, writers, selVars>>

\* get_size: `let pane = self.master_pane.lock().unwrap()`
gs_lock ==
    /\ gs.pc = "lock"
    /\ GetSizeLockFree(gs.pane)
    /\ lock' = [lock EXCEPT ![gs.pane] = "get_size"]
    /\ gs' = [gs EXCEPT !.pc = "rows"]
    /\ UNCHANGED <<ioVars, ptyVars, upd, geomHist, updates, writers, selVars>>

\* get_size: `rows: pane.pane_height as u16`, the first field of the literal
gs_rows ==
    /\ gs.pc = "rows"
    /\ gs' = [gs EXCEPT !.pc = "cols", !.rows = pane_height[gs.pane]]
    /\ UNCHANGED <<ioVars, ptyVars, lock, upd, geomHist, updates, writers, selVars>>

\* get_size: `cols: pane.pane_width as u16`, then the guard is dropped and the
\* PtySize is returned
gs_cols ==
    /\ gs.pc = "cols"
    /\ call' = [op |-> "get_size", pane |-> gs.pane,
                arg |-> [w |-> pane_width[gs.pane], h |-> gs.rows],
                ret |-> Ok([rows |-> AsU16(gs.rows), cols |-> AsU16(pane_width[gs.pane]),
                            pixel_width |-> 0, pixel_height |-> 0])]
    /\ lock' = [lock EXCEPT ![gs.pane] = "free"]
    /\ gs' = [pc |-> "idle", pane |-> 0, rows |-> 0]
    /\ UNCHANGED <<ioVars, pane_width, pane_height, issued, waitPc, upd, geomHist, updates, writers, selVars>>

\* the control-connection side takes the pane lock to apply a layout change
upd_lock(p, w, h) ==
    /\ upd.pc = "idle"
    /\ updates < MaxUpdates
    /\ lock[p] = "free"
    /\ lock' = [lock EXCEPT ![p] = "update"]
    /\ upd' = [pc |-> "width", pane |-> p, w |-> w, h |-> h]
    /\ updates' = updates + 1
    /\ UNCHANGED <<ioVars, ptyVars, gs, geomHist, writers, selVars>>

\* the control-connection side stores the new width
upd_width ==
    /\ upd.pc = "width"
    /\ pane_width' = [pane_width EXCEPT ![upd.pane] = upd.w]
    /\ upd' = [upd EXCEPT !.pc = "height"]
    /\ UNCHANGED <<ioVars, pane_height, issued, call, waitPc, lock, gs, geomHist, updates, writers, selVars>>

\* the control-connection side stores the new height and releases the lock
upd_height ==
    /\ upd.pc = "height"
    /\ pane_height' = [pane_height EXCEPT ![upd.pane] = upd.h]
    /\ lock' = [lock EXCEPT ![upd.pane] = "free"]
    /\ geomHist' = [geomHist EXCEPT ![upd.pane] = @ \cup {[w |-> upd.w, h |-> upd.h]}]
    /\ upd' = [pc |-> "idle", pane |-> 0, w |-> 0, h |-> 0]
    /\ UNCHANGED <<ioVars, pane_width, issued, call, waitPc, gs, updates, writers, selVars>>

NextLock ==
    \/ \E p \in Panes : gs_call(p)
    \/ gs_lock
    \/ gs_rows
    \/ gs_cols
    \/ \E p \in Panes : \E w \in Widths : \E h \in Heights : upd_lock(p, w, h)
    \/ upd_width
    \/ upd_height

SpecLock == Init /\ [][NextLock]_vars

\* readers on open channels next to a thread calling get_size
NextMix ==
    \/ \E p \in Panes : \E s \in Chunks(p) : Send(p, s)
    \/ \E p \in Panes : \E r \in Readers : try_clone_reader(p, r)
    \/ \E r \in Readers : \E n \in 1..MaxBuf : ReadCall(r, n)
    \/ \E r \in Readers : ReadReturn(r)
    \/ \E p \in Panes : gs_call(p)
    \/ gs_lock
    \/ gs_rows
    \/ gs_cols

SpecMix == Init /\ [][NextMix]_vars

\* -------------------------------------------------------------- PaneSelector
Chars == {"a", "s", "u"}
KeyCodes == {"Escape", "Backspace", "Enter"} \cup Chars   \* a char c is KeyCode::Char(c)
KeyMods == {"NONE", "SHIFT", "CTRL"}

\* label lists compute_labels_for_alphabet can produce
AllLabelLists ==
    { <<>>,
      << <<"a">> >>,
      << <<"a">>, <<"s">> >>,
      << <<"a", "a">>, <<"a", "s">> >>,
      << <<"u">>, <<"a", "u">> >> }

\* compute_labels_for_alphabet(alphabet, n): n labels
ComputeLabels(n) == {L \in AllLabelLists : Len(L) = n}

\* the window's tabs, panes and overlays change
EnvChange(t, o, n) ==
    /\ hasTab' = t /\ overlay' = o /\ nPanes' = n
    /\ UNCHANGED <<ioVars, ptyVars, lockVars, writers,
                   element, labels, selection, modal, activeIdx, selEv>>

\* PaneSelector::computed_element: element and labels are computed when
\* element is None
computed_element ==
    /\ modal = "open"
    /\ IF element
       THEN UNCHANGED <<element, labels>>
       ELSE /\ element' = TRUE
            /\ labels' \in ComputeLabels(IF hasTab THEN nPanes ELSE 0)
    /\ UNCHANGED <<ioVars, ptyVars, lockVars, writers,
                   selection, modal, hasTab, overlay, nPanes, activeIdx, selEv>>

\* PaneSelector::reconfigure: element.take()
reconfigure ==
    /\ modal = "open"
    /\ element' = FALSE
    /\ UNCHANGED <<ioVars, ptyVars, lockVars, writers,
                   labels, selection, modal, hasTab, overlay, nPanes, activeIdx, selEv>>

\* labels.iter().position(|s| s == sel): 0-based index of the first label
\* equal to sel, -1 for None
Position(sel) ==
    IF \E i \in 1..Len(labels) : labels[i] = sel
    THEN (CHOOSE i \in 1..Len(labels) :
              labels[i] = sel /\ \A j \in 1..(i - 1) : labels[j] # sel) - 1
    ELSE -1

\* key_down, were it to activate the pane whatever the tab's overlay
MayActivateIgnoresOverlay(idx) == idx \in 0..(nPanes - 1)

\* key_down: the tab state has no overlay and iter_panes has a pane with the index
MayActivate(idx) == ~overlay /\ idx \in 0..(nPanes - 1)

\* key_down, were it to cancel the modal only after activating a pane
CancelOnlyIfActivated(activated) == activated

\* key_down: cancel_modal follows the overlay test whatever its outcome
CancelAfterMatch(activated) == TRUE

\* String::pop
Pop(str) == IF str = <<>> THEN <<>> ELSE SubSeq(str, 1, Len(str) - 1)

\* PaneSelector::key_down(key, mods, term_window)
key_down(key, mods) ==
    /\ modal = "open"
    /\ IF key = "Escape" /\ mods = "NONE"
       THEN /\ modal' = "cancelled"
            /\ selEv' = [matched |-> -1, activated |-> -1]
            /\ UNCHANGED <<selection, activeIdx>>
       ELSE IF key \in Chars /\ mods \in {"NONE", "SHIFT"}
       THEN /\ Len(selection) < MaxSelLen
            /\ selection' = Append(selection, key)
            /\ LET pane_index == Position(selection') IN
               IF pane_index # -1
               THEN IF ~hasTab
                    THEN /\ selEv' = [matched |-> pane_index, activated |-> -1]
                         /\ UNCHANGED <<modal, activeIdx>>
                    ELSE /\ IF MayActivate(pane_index)
                            THEN /\ activeIdx' = pane_index
                                 /\ selEv' = [matched |-> pane_index,
                                              activated |-> pane_index]
                            ELSE /\ activeIdx' = activeIdx
                                 /\ selEv' = [matched |-> pane_index, activated |-> -1]
                         /\ modal' = IF CancelAfterMatch(MayActivate(pane_index))
                                     THEN "cancelled" ELSE modal
               ELSE /\ selEv' = [matched |-> -1, activated |-> -1]
                    /\ UNCHANGED <<modal, activeIdx>>
       ELSE IF key = "Backspace" /\ mods = "NONE"
       THEN /\ selection' = Pop(selection)
            /\ selEv' = [matched |-> -1, activated |-> -1]
            /\ UNCHANGED <<modal, activeIdx>>
       ELSE IF key = "u" /\ mods = "CTRL"
       THEN /\ selection' = <<>>
            /\ selEv' = [matched |-> -1, activated |-> -1]
            /\ UNCHANGED <<modal, activeIdx>>
       ELSE /\ selEv' = [matched |-> -1, activated |-> -1]
            /\ UNCHANGED <<selection, modal, activeIdx>>
    /\ UNCHANGED <<ioVars, ptyVars, lockVars, writers,
                   element, labels, hasTab, overlay, nPanes>>

NextSel ==
    \/ \E t \in BOOLEAN : \E o \in BOOLEAN : \E n \in 1..2 : EnvChange(t, o, n)
    \/ computed_element
    \/ reconfigure
    \/ \E key \in KeyCodes : \E mods \in KeyMods : key_down(key, mods)

SpecSel == Init /\ [][NextSel]_vars

\* ------------------------------------------------------------------ claims
\* reader r is parked in recv on a channel that is empty and has lost every sender
ParkedOnClosed(r) ==
    /\ rdState[r] = "reading"
    /\ queue[rdRx[r]] = <<>>
    /\ ~txAlive[rdRx[r]]

\* C1: once every sender of a pane channel is dropped, each reader blocked in
\* read on that empty channel eventually returns, and what it returns is Ok(0):
\* no reader stays blocked and none gets an error.
C1_TeardownUnblocksReaders ==
    \A r \in Readers :
        ParkedOnClosed(r) ~> (rdState[r] = "idle" /\ rdRet(r) = Ok(0))

\* two readers cloned from the same TmuxPty were both blocked on its empty
\* channel when its sender went away; one has returned, the other is still parked
C1_Witness ==
    /\ rdState[1] = "idle" /\ rdState[2] = "reading"
    /\ rdPty[1] = rdPty[2]
    /\ ParkedOnClosed(2)
    /\ sent[rdRx[2]] = <<>>
    /\ rdRet(1) = Ok(0)

\* the bytes reader r has been handed, over all its reads
BytesRead(r) == Concat([i \in 1..Len(rdLog[r]) |-> rdLog[r][i].bytes])

\* r is the only reader that has received anything from its channel
SoleReader(r) ==
    /\ rdState[r] # "none"
    /\ \A q \in Readers \ {r} : rdLog[q] = <<>> \/ rdRx[q] # rdRx[r]

\* C2: for one reader of a pane, every read returning n > 0 returns the whole
\* chunk that was sent, and once the channel is drained the bytes returned by
\* its successive reads are exactly the chunks sent, concatenated: no tail of a
\* chunk longer than the buffer is lost.
C2_ReadLosesNoBytes ==
    \A r \in Readers :
        SoleReader(r) =>
            /\ \A i \in 1..Len(rdLog[r]) :
                   rdLog[r][i].ret.v > 0 =>
                       rdLog[r][i].bytes = sent[rdLog[r][i].src][rdLog[r][i].seq]
            /\ queue[rdRx[r]] = <<>> => BytesRead(r) = Concat(sent[rdRx[r]])

\* C3: a reader cloned from the TmuxPty of pane p is handed only messages that
\* were sent on p's channel, in the order they were sent, and the bytes it gets
\* from a message are bytes of that message: nothing of the other pane.
C3_PerPaneOrderIsolation ==
    \A r \in Readers : \A i \in 1..Len(rdLog[r]) :
        LET e == rdLog[r][i] IN
        /\ e.src = rdPty[r]
        /\ e.seq > 0 =>
              /\ e.seq <= Len(sent[rdPty[r]])
              /\ e.bytes = Take(sent[rdPty[r]][e.seq], Len(e.bytes))
              /\ \A k \in 1..Len(e.bytes) : e.bytes[k] \in 10 * rdPty[r] + 1 .. 10 * rdPty[r] + 9
        /\ \A j \in 1..(i - 1) :
              (rdLog[r][j].seq > 0 /\ e.seq > 0) => rdLog[r][j].seq < e.seq

\* chunks were sent to both panes and the reader of each pane has been handed
\* bytes of its own pane
C3_Witness ==
    /\ rdPty[1] = 1 /\ rdPty[2] = 2
    /\ sent[1] # <<>> /\ sent[2] # <<>>
    /\ rdLog[1] # <<>> /\ rdLog[1][1].ret.v > 0
    /\ rdLog[2] # <<>> /\ rdLog[2][1].ret.v > 0

\* C4: no read returns an error, and once a read on a channel without senders
\* has returned Ok(0) the queued chunks have all been handed out: every later
\* read returns Ok(0) as well.
C4_EosOnlyAfterDrain ==
    \A r \in Readers :
        /\ \A i \in 1..Len(rdLog[r]) : rdLog[r][i].ret.kind = "Ok"
        /\ rdEos[r] > 0 =>
              \A j \in rdEos[r]..Len(rdLog[r]) : rdLog[r][j].ret = Ok(0)

\* C5: a read (every buffer here has length >= 1) returns Ok(0) only when the
\* channel has no sender left and no chunk queued, which is when recv fails
\* and no message (seq = 0) is handed out.
C5_ZeroMeansEos ==
    \A r \in Readers : \A i \in 1..Len(rdLog[r]) :
        LET e == rdLog[r][i] IN
        e.ret = Ok(0) => (~txAlive[e.src] /\ e.seq = 0)

\* C6: get_size returns exactly the width and height stored in the pane state.
C6_GetSizeExact ==
    call.op = "get_size" =>
        call.ret = Ok([rows |-> call.arg.h, cols |-> call.arg.w,
                       pixel_width |-> 0, pixel_height |-> 0])

\* C7: a resize step returns Ok(()) and leaves what get_size returns for every
\* pane as it was; the stored width and height change only in a step of the
\* control-connection side.
C7_ResizeKeepsGeometry ==
    [][ /\ \A p \in Panes : \A size \in Sizes :
              resize(p, size) =>
                  /\ call'.ret = Ok(<<>>)
                  /\ \A q \in Panes : PtySizeOf(q)' = PtySizeOf(q)
        /\ (pane_width' # pane_width \/ pane_height' # pane_height) =>
              \E p \in Panes : \E w \in Widths : \E h \in Heights :
                  LayoutChanged(p, w, h) ]_vars

\* resize has returned for a size that differs from what get_size reports
C7_Witness ==
    /\ call.op = "resize"
    /\ call.ret = Ok(<<>>)
    /\ call.arg.cols # PtySizeOf(call.pane).cols
    /\ call.arg.rows # PtySizeOf(call.pane).rows

\* C8: every resize step appends a Resize command for its pane to what has
\* been issued toward the control connection.
C8_ResizeIssuesCommand ==
    [][ \A p \in Panes : \A size \in Sizes :
            resize(p, size) =>
                issued' = Append(issued, [cmd |-> "Resize", pane |-> p,
                                          cols |-> size.cols, rows |-> size.rows]) ]_vars

\* C9: try_wait and kill hand a result back to the caller (no panic), try_wait
\* reporting Ok(None) while the pane's channel is open, and process_id returns
\* a value.
C9_LifecycleQueriesReturn ==
    /\ call.op \in {"try_wait", "kill"} => call.ret.kind = "Ok"
    /\ (call.op = "try_wait" /\ txAlive[call.pane]) =>
           (call.ret.kind = "Ok" /\ call.ret.v = "None")
    /\ call.op = "process_id" => call.ret.kind = "Some"

\* C10: a wait call on a pane that has exited (its channel closed) eventually
\* returns.
C10_WaitReturnsAfterExit ==
    \A p \in Panes :
        (waitPc[p] = "looping" /\ ~txAlive[p]) ~> (waitPc[p] = "returned")

\* C11: a write step returns Ok(n), never an error, with 1 <= n <= len(buf)
\* for a non-empty buffer, and write and flush steps leave the pane geometry
\* and the output channels as they were.
C11_WritesAccepted ==
    [][ /\ \A p \in Panes : \A n \in WriteLens :
              write(p, n) =>
                  /\ call'.ret.kind = "Ok"
                  /\ n > 0 => (1 <= call'.ret.v /\ call'.ret.v <= n)
                  /\ UNCHANGED <<pane_width, pane_height, queue, txAlive>>
        /\ \A p \in Panes :
              flush(p) => UNCHANGED <<pane_width, pane_height, queue, txAlive>> ]_vars

\* C12: the (width, height) a get_size call has read is a pair the pane state
\* held as its complete geometry at some moment, and the PtySize it returns is
\* built from that pair: never the width of one layout change with the height
\* of another.
C12_NoTornGeometry ==
    call.op = "get_size" =>
        /\ call.arg \in geomHist[call.pane]
        /\ call.ret = Ok([rows |-> AsU16(call.arg.h), cols |-> AsU16(call.arg.w),
                          pixel_width |-> 0, pixel_height |-> 0])

\* get_size has returned the second geometry of a pane while a further layout
\* change of that pane is half applied
C12_Witness ==
    /\ call.op = "get_size"
    /\ call.arg # [w |-> 80, h |-> 24]
    /\ upd.pc = "height" /\ upd.pane = call.pane
    /\ upd.w # call.arg.w /\ upd.h # call.arg.h

\* reader r is parked in recv on an empty channel that still has a sender
ParkedOnOpen(r) ==
    /\ rdState[r] = "reading"
    /\ queue[rdRx[r]] = <<>>
    /\ txAlive[rdRx[r]]

\* C13: while a reader is parked in read on an empty channel, no other thread
\* is blocked by it: a reader inside read on another channel that has a chunk
\* queued can complete its read, and a get_size call on any pane (the parked
\* reader's own included) can take the pane lock and run to its return.
C13_ParkedReaderBlocksNobody ==
    \A r \in Readers :
        ParkedOnOpen(r) =>
            /\ \A q \in Readers :
                  (rdState[q] = "reading" /\ rdRx[q] # rdRx[r] /\ queue[rdRx[q]] # <<>>)
                      => ENABLED ReadReturn(q)
            /\ gs.pc = "lock" => ENABLED gs_lock
            /\ gs.pc = "rows" => ENABLED gs_rows
            /\ gs.pc = "cols" => ENABLED gs_cols

\* a reader of pane 1 is parked on its empty channel while the reader of pane
\* 2 is inside read with a chunk queued and get_size on pane 1 holds the lock
C13_Witness ==
    /\ rdPty[1] = 1 /\ ParkedOnOpen(1)
    /\ rdPty[2] = 2 /\ rdState[2] = "reading" /\ queue[2] # <<>>
    /\ gs.pc = "cols" /\ gs.pane = 1

\* the reads (reader, number of the read) that were handed message k of pane p
ReceiversOf(p, k) ==
    {x \in Readers \X (1..MaxReads) :
        /\ x[2] <= Len(rdLog[x[1]])
        /\ rdLog[x[1]][x[2]].src = p
        /\ rdLog[x[1]][x[2]].seq = k}

\* C14: readers cloned from one TmuxPty receive from one channel: every chunk
\* sent on it is handed to at most one read of one reader, a chunk handed to
\* none is still queued, and each reader gets its chunks in send order.
C14_ClonedReadersCompete ==
    /\ \A p \in Panes : \A k \in 1..Len(sent[p]) :
          /\ Cardinality(ReceiversOf(p, k)) <= 1
          /\ ReceiversOf(p, k) = {} => \E j \in 1..Len(queue[p]) : queue[p][j].seq = k
    /\ \A r \in Readers : \A i, j \in 1..Len(rdLog[r]) :
          (i < j /\ rdLog[r][i].seq > 0 /\ rdLog[r][j].seq > 0)
              => rdLog[r][i].seq < rdLog[r][j].seq
    /\ \A r, q \in Readers :
          (rdState[r] # "none" /\ rdState[q] # "none" /\ rdPty[r] = rdPty[q])
              => rdRx[r] = rdRx[q]

\* two readers cloned from the same TmuxPty have each been handed one of the
\* two chunks sent on its channel
C14_Witness ==
    /\ rdPty[1] = rdPty[2] /\ rdPty[1] \in Panes
    /\ Len(sent[rdPty[1]]) = 2
    /\ rdLog[1] # <<>> /\ rdLog[2] # <<>>
    /\ rdLog[1][1].seq > 0 /\ rdLog[2][1].seq > 0
    /\ rdLog[1][1].seq # rdLog[2][1].seq

\* chunks of pane p handed out so far
Received(p) ==
    Cardinality({x \in Readers \X (1..MaxReads) :
        /\ x[2] <= Len(rdLog[x[1]])
        /\ rdLog[x[1]][x[2]].src = p
        /\ rdLog[x[1]][x[2]].seq > 0})

\* no reader of pane p's channel exists: none cloned yet, or all dropped
NoReader(p) == \A r \in Readers : rdState[r] \in {"none", "dropped"} \/ rdRx[r] # p

\* C15: while no reader of a pane exists, every chunk sent and not yet read is
\* queued, in send order; and the first read of a reader that finds the
\* channel non-empty is handed the oldest chunk not yet read.
C15_OutputRetainedWithoutReader ==
    /\ [](\A p \in Panes :
            NoReader(p) =>
                /\ Len(queue[p]) = Len(sent[p]) - Received(p)
                /\ \A j \in 1..Len(queue[p]) :
                      /\ queue[p][j].seq = Received(p) + j
                      /\ queue[p][j].str = sent[p][Received(p) + j])
    /\ [][\A r \in Readers :
            (ReadReturn(r) /\ rdLog[r] = <<>> /\ queue[rdRx[r]] # <<>>) =>
                /\ rdLog'[r][1].seq = Received(rdRx[r]) + 1
                /\ rdLog'[r][1].bytes =
                       Take(sent[rdRx[r]][Received(rdRx[r]) + 1], rdBuf[r])]_vars

\* the first reader of a pane read the first chunk and was dropped; the second
\* reader, cloned from the same TmuxPty, was handed the second chunk
C15_Witness ==
    /\ rdState[1] = "dropped" /\ rdState[2] = "idle"
    /\ rdPty[1] = rdPty[2]
    /\ Len(rdLog[1]) = 1 /\ rdLog[1][1].seq = 1
    /\ Len(rdLog[2]) = 1 /\ rdLog[2][1].seq = 2

\* C16: a key_down step hands an index i to set_active_idx only if the key is a
\* character (no modifier or Shift), the selection with that character appended
\* equals label i, labels have been computed, the window has an active tab
\* whose state has no overlay and which has a pane with index i; the active
\* pane then becomes i. In every other key_down step the active pane stays as
\* it was; Escape, Backspace (which removes the last character) and Ctrl-u
\* (which clears the selection) never activate a pane.
C16_ActivationGuarded ==
    [][ \A key \in KeyCodes : \A mods \in KeyMods :
            key_down(key, mods) =>
                LET act == selEv'.activated IN
                /\ act # -1 =>
                      /\ key \in Chars /\ mods \in {"NONE", "SHIFT"}
                      /\ selection' = Append(selection, key)
                      /\ labels # <<>> /\ act + 1 <= Len(labels)
                      /\ labels[act + 1] = selection'
                      /\ hasTab /\ ~overlay /\ act \in 0..(nPanes - 1)
                      /\ activeIdx' = act
                /\ act = -1 => activeIdx' = activeIdx
                /\ (key \in {"Escape", "Backspace"} \/ (key = "u" /\ mods = "CTRL"))
                      => (act = -1 /\ activeIdx' = activeIdx)
                /\ (key = "Backspace" /\ mods = "NONE") => selection' = Pop(selection)
                /\ (key = "u" /\ mods = "CTRL") => selection' = <<>> ]_vars

\* a two-character selection matched the second label and its pane was activated
C16_Witness ==
    /\ selEv.activated = 1 /\ activeIdx = 1
    /\ Len(selection) = 2 /\ labels[2] = selection
    /\ modal = "cancelled"

====
